---- MODULE Spec2Model ----
(***************************************************************************)
(* REST API Explorer (src/src/App.tsx and its components).                 *)
(*                                                                         *)
(* The session state is the five useState cells of App.  handleFetch is an *)
(* async function: it runs synchronously up to `await fetch(url)`, resumes *)
(* when fetch settles, suspends again at `await res.json()` and resumes a  *)
(* last time when the body has been read.  Each activation of handleFetch  *)
(* keeps the `url` and `history` bindings of the render in which it was    *)
(* started (they are consts of that render's closure).                     *)
(*                                                                         *)
(* A text is a sequence of tokens; JSON texts are spelled one character    *)
(* per token, fixed messages are one token.                                *)
(***************************************************************************)
EXTENDS Integers, Sequences, FiniteSets, TLC

VARIABLES url, response, status, history, currentRequestId, calls, issued,
          completed, now, ev, arg, out

vars ==
  <<url, response, status, history, currentRequestId, calls, issued, completed,
    now, ev, arg, out>>

\* ---------------------------------------------------------------- bounds
MaxCalls == 3
MaxClock == 2
MaxTextLen == 3
MaxUrlLen == 5
MaxBudget == 5

\* ------------------------------------------------------------ JSON texts
WS == {" ", "\n"}
Digits == <<"0", "1", "2", "3", "4", "5", "6", "7", "8", "9">>
DigitChars == {Digits[i] : i \in 1..Len(Digits)}
DigitValue(ch) == (CHOOSE i \in 1..Len(Digits) : Digits[i] = ch) - 1

JNum(n) == [t |-> "num", n |-> n, items |-> <<>>]
JArr(xs) == [t |-> "arr", n |-> 0, items |-> xs]
PFail == [ok |-> FALSE, val |-> JNum(0), next |-> 0]
POk(v, i) == [ok |-> TRUE, val |-> v, next |-> i]

RECURSIVE SkipWs(_, _)
SkipWs(s, i) == IF i <= Len(s) /\ s[i] \in WS THEN SkipWs(s, i + 1) ELSE i

\* the index after the run of digits that starts at i
RECURSIVE DigitsEnd(_, _)
DigitsEnd(s, i) ==
  IF i <= Len(s) /\ s[i] \in DigitChars THEN DigitsEnd(s, i + 1) ELSE i

\* the number spelled by s[i..j]
RECURSIVE NumValue(_, _, _)
NumValue(s, i, j) ==
  IF i = j THEN DigitValue(s[j])
  ELSE 10 * NumValue(s, i, j - 1) + DigitValue(s[j])

\* a number: digits, with no leading zero before another digit
ParseNumber(s, j) ==
  LET e == DigitsEnd(s, j) IN
  IF s[j] = "0" /\ e > j + 1 THEN PFail
  ELSE POk(JNum(NumValue(s, j, e - 1)), e)

RECURSIVE ParseValue(_, _), ParseElems(_, _, _)
ParseValue(s, i) ==
  LET j == SkipWs(s, i) IN
  IF j > Len(s) THEN PFail
  ELSE IF s[j] \in DigitChars THEN ParseNumber(s, j)
  ELSE IF s[j] = "[" THEN
    LET k == SkipWs(s, j + 1) IN
    IF k <= Len(s) /\ s[k] = "]" THEN POk(JArr(<<>>), k + 1)
    ELSE ParseElems(s, k, <<>>)
  ELSE PFail

ParseElems(s, i, acc) ==
  LET r == ParseValue(s, i) IN
  IF ~r.ok THEN PFail
  ELSE LET k == SkipWs(s, r.next) IN
    IF k > Len(s) THEN PFail
    ELSE IF s[k] = "," THEN ParseElems(s, k + 1, Append(acc, r.val))
    ELSE IF s[k] = "]" THEN POk(JArr(Append(acc, r.val)), k + 1)
    ELSE PFail

\* JSON.parse(s): ok = FALSE stands for the SyntaxError it throws
JSONParse(s) ==
  LET r == ParseValue(s, 1) IN
  IF r.ok /\ SkipWs(s, r.next) > Len(s) THEN [ok |-> TRUE, val |-> r.val]
  ELSE [ok |-> FALSE, val |-> JNum(0)]

RECURSIVE Spaces(_)
Spaces(n) == IF n = 0 THEN <<>> ELSE <<" ">> \o Spaces(n - 1)

\* the decimal spelling of n
RECURSIVE ToDigits(_)
ToDigits(n) ==
  IF n < 10 THEN <<Digits[n + 1]>>
  ELSE ToDigits(n \div 10) \o <<Digits[(n % 10) + 1]>>

RECURSIVE Ser(_, _, _), SerItems(_, _, _, _)
Ser(v, indent, level) ==
  IF v.t = "num" THEN ToDigits(v.n)
  ELSE IF Len(v.items) = 0 THEN <<"[", "]">>
  ELSE <<"[">> \o SerItems(v.items, 1, indent, level + 1)
       \o <<"\n">> \o Spaces(indent * level) \o <<"]">>

SerItems(xs, i, indent, level) ==
  LET one == <<"\n">> \o Spaces(indent * level) \o Ser(xs[i], indent, level) IN
  IF i = Len(xs) THEN one
  ELSE one \o <<",">> \o SerItems(xs, i + 1, indent, level)

\* JSON.stringify(v, null, indent), indent > 0
JSONStringify(v, indent) == Ser(v, indent, 0)

\* ------------------------------------------------------------- constants
Null == 0                       \* currentRequestId = null; Date.now() > 0
InitialResponse == <<"No data yet. Enter an API endpoint and click Fetch.">>
FetchingText == <<"Fetching data...">>
ClearedText == <<"History cleared. Enter an API endpoint and click Fetch.">>

\* ------------------------------------------------------- the environment
\* what the user can have typed into the input
Urls == {"", "not a url", "https://example.test/ok"}
\* the strings of Urls that `new URL(s)` accepts
ParseableUrls == {"https://example.test/ok"}

\* bodies a server can answer with: the JSON text [1,2] and an HTML page
Bodies == { <<"[", "1", ",", "2", "]">>, <<"<">> }
\* a Response: res.ok and the body text
Responses == [ok : BOOLEAN, body : Bodies]
NoRes == [ok |-> FALSE, body |-> <<>>]
\* what res.json() makes of each body
Json == [body \in Bodies |-> JSONParse(body)]

\* values a rejected promise can carry: an Error with a message, or a value
\* that is not an Error instance
Thrown ==
  { [isError |-> TRUE, message |-> <<"timeout">>],
    [isError |-> FALSE, message |-> <<>>] }
SyntaxError == [isError |-> TRUE, message |-> <<"Unexpected token">>]

\* ------------------------------------------------------------ helpers.ts
isValidUrl(urlString) == urlString \in ParseableUrls

\* as formatResponse, had the catch block returned a message about the text
formatResponseMarksUnparsed(resp, st) ==
  IF st \in {"success", "error"}
  THEN IF JSONParse(resp).ok THEN JSONStringify(JSONParse(resp).val, 2)
       ELSE <<"Invalid JSON: ">> \o resp
  ELSE resp

\* as formatResponse, without the test of status
formatResponseAnyStatus(resp, st) ==
  IF JSONParse(resp).ok THEN JSONStringify(JSONParse(resp).val, 2) ELSE resp

formatResponse(resp, st) ==
  IF st \in {"success", "error"}
  THEN IF JSONParse(resp).ok THEN JSONStringify(JSONParse(resp).val, 2)
       ELSE resp
  ELSE resp

\* String.prototype.substring: indices outside the string are brought to its
\* ends, and the smaller of the two is the start
Clamp(n, len) == IF n < 0 THEN 0 ELSE IF n > len THEN len ELSE n
substring(s, start, end) ==
  LET a == Clamp(start, Len(s))
      b == Clamp(end, Len(s))
  IN SubSeq(s, (IF a < b THEN a ELSE b) + 1, IF a < b THEN b ELSE a)

truncateUrl(u, maxLength) ==
  IF Len(u) <= maxLength THEN u
  ELSE substring(u, 0, maxLength - 3) \o <<".", ".", ".">>

\* ---------------------------------------------------------------- state
\* calls: the activations of handleFetch suspended at an await, oldest first;
\* an activation that returns is gone
Return(c) == SubSeq(calls, 1, c - 1) \o SubSeq(calls, c + 1, Len(calls))

\* issued, completed: the calls of fetch so far, and the activations of
\* handleFetch that ran to their end.
\* arg, out: the arguments and the results of a helper of helpers.ts called on
\* its own (FormatSpec, TruncateSpec); App leaves them alone.
\* ev: the last thing that happened (the handler that ran, the history item
\* clicked, the value a promise was rejected with)
NoError == [isError |-> FALSE, message |-> <<>>]
Event(op) == [op |-> op, item |-> 0, error |-> NoError]

Init ==
  /\ url = ""
  /\ response = InitialResponse
  /\ status = "idle"
  /\ history = <<>>
  /\ currentRequestId = Null
  /\ calls = <<>>
  /\ issued = 0
  /\ completed = 0
  /\ now = 1
  /\ ev = Event("init")
  /\ arg = <<>>
  /\ out = <<>>

\* InputField: disabled={status === 'loading'}
disabled == status = "loading"
\* InputField: const isValid = value === '' || isValidUrl(value)
isValid == url = "" \/ isValidUrl(url)

\* as Accepted, had line 17 tested only `!url`
AcceptedNonEmpty(u) == u # ""

\* handleFetch line 17: the submission goes on only past this test
Accepted(u) == ~(u = "" \/ ~isValidUrl(u))

\* as handleFetch, without setResponse('Fetching data...')
handleFetchNoPlaceholder ==
  IF ~Accepted(url)
  THEN /\ ev' = Event("rejected")
       /\ UNCHANGED <<url, response, status, history, currentRequestId, calls, issued, completed, now, arg, out>>
  ELSE /\ issued < MaxCalls
       /\ issued' = issued + 1
       /\ status' = "loading"
       /\ calls' = Append(calls, [pc |-> "fetch", url |-> url,
                                  history |-> history, res |-> NoRes])
       /\ ev' = Event("submit")
       /\ UNCHANGED <<url, response, history, currentRequestId, completed, now, arg, out>>

\* handleFetch up to `await fetch(url)`
handleFetch ==
  IF ~Accepted(url)
  THEN /\ ev' = Event("rejected")
       /\ UNCHANGED <<url, response, status, history, currentRequestId, calls, issued, completed, now, arg, out>>
  ELSE /\ issued < MaxCalls
       /\ issued' = issued + 1
       /\ status' = "loading"
       /\ response' = FetchingText
       /\ calls' = Append(calls, [pc |-> "fetch", url |-> url,
                                  history |-> history, res |-> NoRes])
       /\ ev' = Event("submit")
       /\ UNCHANGED <<url, history, currentRequestId, completed, now, arg, out>>

\* the Fetch button: disabled={disabled || !isValid}
clickFetch ==
  /\ ~(disabled \/ ~isValid)
  /\ handleFetch

\* handleKeyPress in the (enabled) input
pressEnter ==
  /\ ~disabled
  /\ handleFetch

\* the input's onChange={setUrl}; the input is disabled while loading
setUrl(value) ==
  /\ ~disabled
  /\ value # url
  /\ url' = value
  /\ ev' = Event("edit")
  /\ UNCHANGED <<response, status, history, currentRequestId, calls, issued, completed, now, arg, out>>

\* `await fetch(url)` resolves with a Response
fetchResolved(c, res) ==
  /\ calls[c].pc = "fetch"
  /\ calls' = [calls EXCEPT ![c].pc = "json", ![c].res = res]
  /\ ev' = Event("response")
  /\ UNCHANGED <<url, response, status, history, currentRequestId, issued, completed, now, arg, out>>

\* new Date().toLocaleTimeString(): the clock at a resolution of seconds
toLocaleTimeString(t) == t \div 1000

\* as NewRequest, had `url` been read from the state of the latest render
NewRequestCurrentUrl(c, text, st) ==
  [id |-> now, url |-> url, response |-> text, status |-> st,
   timestamp |-> toLocaleTimeString(now)]

\* the record both paths of handleFetch build
NewRequest(c, text, st) ==
  [id |-> now, url |-> calls[c].url, response |-> text, status |-> st,
   timestamp |-> toLocaleTimeString(now)]

\* setHistory([...history, newRequest]) with handleFetch's own `history`
AppendToHistory(c, newRequest) == Append(calls[c].history, newRequest)

\* as SuccessPath, had line 25 kept the body as it was received
SuccessPathRawBody(c, data) ==
  LET responseText == calls[c].res.body
      newRequest == NewRequest(c, responseText, "success")
  IN /\ response' = responseText
     /\ status' = "success"
     /\ history' = AppendToHistory(c, newRequest)
     /\ currentRequestId' = newRequest.id
     /\ calls' = Return(c)
     /\ completed' = completed + 1
     /\ ev' = Event("success")
     /\ UNCHANGED <<url, issued, now, arg, out>>

\* lines 25-40: the rest of the try block
SuccessPath(c, data) ==
  LET responseText == JSONStringify(data, 2)
      newRequest == NewRequest(c, responseText, "success")
  IN /\ response' = responseText
     /\ status' = "success"
     /\ history' = AppendToHistory(c, newRequest)
     /\ currentRequestId' = newRequest.id
     /\ calls' = Return(c)
     /\ completed' = completed + 1
     /\ ev' = Event("success")
     /\ UNCHANGED <<url, issued, now, arg, out>>

\* as ErrorText, had line 43 read error.message of whatever was thrown
ErrorTextNoInstanceCheck(error) == <<"Error: ">> \o error.message

\* line 43
ErrorText(error) ==
  <<"Error: ">> \o (IF error.isError THEN error.message ELSE <<"Unknown error">>)

\* as CatchPath, had handleFetch no catch block: the rejection ends the
\* activation and nothing else happens
CatchPathUncaught(c, error) ==
  /\ calls' = Return(c)
  /\ ev' = [Event("uncaught") EXCEPT !.error = error]
  /\ UNCHANGED <<url, response, status, history, currentRequestId, issued, completed, now, arg, out>>

\* as CatchPath, had the activation stayed suspended at its await
CatchPathStaysSuspended(c, error) ==
  LET errorText == ErrorText(error)
      newRequest == NewRequest(c, errorText, "error")
  IN /\ response' = errorText
     /\ status' = "error"
     /\ history' = AppendToHistory(c, newRequest)
     /\ currentRequestId' = newRequest.id
     /\ completed' = completed + 1
     /\ ev' = [Event("failure") EXCEPT !.error = error]
     /\ UNCHANGED <<url, calls, issued, now, arg, out>>

\* lines 42-58: the catch block
CatchPath(c, error) ==
  LET errorText == ErrorText(error)
      newRequest == NewRequest(c, errorText, "error")
  IN /\ response' = errorText
     /\ status' = "error"
     /\ history' = AppendToHistory(c, newRequest)
     /\ currentRequestId' = newRequest.id
     /\ calls' = Return(c)
     /\ completed' = completed + 1
     /\ ev' = [Event("failure") EXCEPT !.error = error]
     /\ UNCHANGED <<url, issued, now, arg, out>>

\* `await fetch(url)` rejects
fetchRejected(c, error) ==
  /\ calls[c].pc = "fetch"
  /\ CatchPath(c, error)

\* `await res.json()` resolves: the body parsed
jsonResolved(c) ==
  /\ calls[c].pc = "json"
  /\ Json[calls[c].res.body].ok
  /\ SuccessPath(c, Json[calls[c].res.body].val)

\* `await res.json()` rejects: the body is not JSON, or reading it failed
jsonRejected(c, error) ==
  /\ calls[c].pc = "json"
  /\ \/ ~Json[calls[c].res.body].ok /\ error = SyntaxError
     \/ error \in Thrown
  /\ CatchPath(c, error)

\* as handleSelectRequest, without setStatus(request.status)
handleSelectRequestKeepsStatus(request) ==
  /\ url' = request.url
  /\ response' = request.response
  /\ currentRequestId' = request.id
  /\ UNCHANGED <<status, history, calls, issued, completed, now, arg, out>>

handleSelectRequest(request) ==
  /\ url' = request.url
  /\ response' = request.response
  /\ status' = request.status
  /\ currentRequestId' = request.id
  /\ UNCHANGED <<history, calls, issued, completed, now, arg, out>>

\* a click on a HistoryItem of the rendered history
clickHistoryItem(i) ==
  /\ handleSelectRequest(history[i])
  /\ ev' = [Event("select") EXCEPT !.item = i]

\* as handleClearHistory, without setCurrentRequestId(null)
handleClearHistoryKeepsSelection ==
  /\ history' = <<>>
  /\ response' = ClearedText
  /\ status' = "idle"
  /\ UNCHANGED <<currentRequestId, url, calls, issued, completed, now, arg, out>>

\* as handleClearHistory, without setHistory([])
handleClearHistoryKeepsHistory ==
  /\ currentRequestId' = Null
  /\ response' = ClearedText
  /\ status' = "idle"
  /\ UNCHANGED <<history, url, calls, issued, completed, now, arg, out>>

\* as handleClearHistory, without setStatus('idle')
handleClearHistoryKeepsStatus ==
  /\ history' = <<>>
  /\ currentRequestId' = Null
  /\ response' = ClearedText
  /\ UNCHANGED <<status, url, calls, issued, completed, now, arg, out>>

handleClearHistory ==
  /\ history' = <<>>
  /\ currentRequestId' = Null
  /\ response' = ClearedText
  /\ status' = "idle"
  /\ UNCHANGED <<url, calls, issued, completed, now, arg, out>>

\* the Clear button, rendered only when history.length > 0
clickClear ==
  /\ Len(history) # 0
  /\ handleClearHistory
  /\ ev' = Event("clear")

\* time passes: Date.now() is read from a clock that never goes back
Tick ==
  /\ now < MaxClock
  /\ now' = now + 1
  /\ ev' = Event("tick")
  /\ UNCHANGED <<url, response, status, history, currentRequestId, calls, issued, completed, arg, out>>

Next ==
  \/ clickFetch
  \/ pressEnter
  \/ \E value \in Urls : setUrl(value)
  \/ \E c \in 1..Len(calls), res \in Responses : fetchResolved(c, res)
  \/ \E c \in 1..Len(calls), error \in Thrown : fetchRejected(c, error)
  \/ \E c \in 1..Len(calls) : jsonResolved(c)
  \/ \E c \in 1..Len(calls), error \in Thrown \cup {SyntaxError} : jsonRejected(c, error)
  \/ \E i \in 1..Len(history) : clickHistoryItem(i)
  \/ clickClear
  \/ Tick

Spec == Init /\ [][Next]_vars

\* a promise handed out by fetch or by res.json() settles
Settle ==
  \E c \in 1..Len(calls) :
    \/ \E res \in Responses : fetchResolved(c, res)
    \/ \E error \in Thrown : fetchRejected(c, error)
    \/ jsonResolved(c)
    \/ \E error \in Thrown \cup {SyntaxError} : jsonRejected(c, error)

\* App when no promise stays pending for ever
LiveSpec == Spec /\ WF_vars(Settle)

\* ------------------------------------------- formatResponse on its own
\* the characters of the texts formatResponse is given
Chars == {"[", "]", ",", "0", "1", " ", "\n", "x"}
TextsUpTo(n) == UNION {[1..k -> Chars] : k \in 0..n}
Statuses == {"idle", "loading", "success", "error"}

\* a call formatResponse(response, status), as ResponseDisplay makes it
FormatInit ==
  /\ url = ""
  /\ response = InitialResponse
  /\ status = "idle"
  /\ history = <<>>
  /\ currentRequestId = Null
  /\ calls = <<>>
  /\ issued = 0
  /\ completed = 0
  /\ now = 1
  /\ ev = Event("init")
  /\ arg \in [response : TextsUpTo(MaxTextLen), status : Statuses]
  /\ out = <<>>

\* the call returns
formatOnce ==
  /\ out = <<>>
  /\ out' = <<formatResponse(arg.response, arg.status)>>
  /\ ev' = Event("format")
  /\ UNCHANGED <<url, response, status, history, currentRequestId, calls, issued, completed, now, arg>>

\* what it returned is formatted once more, under the same status
formatAgain ==
  /\ Len(out) = 1
  /\ out' = Append(out, formatResponse(out[1], arg.status))
  /\ ev' = Event("format")
  /\ UNCHANGED <<url, response, status, history, currentRequestId, calls, issued, completed, now, arg>>

FormatNext == formatOnce \/ formatAgain

FormatSpec == FormatInit /\ [][FormatNext]_vars

\* ---------------------------------------------- truncateUrl on its own
UrlChars == {"h", "/"}
UrlsUpTo(n) == UNION {[1..k -> UrlChars] : k \in 0..n}

\* a call truncateUrl(url, maxLength), as HistoryItem makes it with 35
TruncateInit ==
  /\ url = ""
  /\ response = InitialResponse
  /\ status = "idle"
  /\ history = <<>>
  /\ currentRequestId = Null
  /\ calls = <<>>
  /\ issued = 0
  /\ completed = 0
  /\ now = 1
  /\ ev = Event("init")
  /\ arg \in [url : UrlsUpTo(MaxUrlLen), maxLength : 0..MaxBudget]
  /\ out = <<>>

\* the call returns
truncate ==
  /\ out = <<>>
  /\ out' = <<truncateUrl(arg.url, arg.maxLength)>>
  /\ ev' = Event("truncate")
  /\ UNCHANGED <<url, response, status, history, currentRequestId, calls, issued, completed, now, arg>>

TruncateSpec == TruncateInit /\ [][truncate]_vars

\* ============================================================== claims
IsPrefix(s, t) == Len(s) <= Len(t) /\ SubSeq(t, 1, Len(s)) = s
Last(s) == s[Len(s)]
\* the step is the last resumption of an activation of handleFetch
Completion == ev'.op \in {"success", "failure"}
\* the activation c returned in this step
Returned(c) == c \in 1..Len(calls) /\ calls' = Return(c)

\* C1: at most one network call is outstanding in every reachable state.
C1_SingleFlight == Len(calls) <= 1

\* C2: every completion of a submission appends exactly one record: the
\* history after it is the history before it plus one record at the end.
C2_CompletionAppendsOne ==
  [][Completion =>
       /\ Len(history') = Len(history) + 1
       /\ SubSeq(history', 1, Len(history)) = history]_vars

\* C3: except for clearHistory, every step leaves the history it found as a
\* prefix of the history it leaves.
C3_AppendOnly == [][ev'.op # "clear" => IsPrefix(history, history')]_vars

\* C4: a submit (by the button or by Enter) while currentUrl is empty or not a
\* well-formed URL changes nothing of the session and issues no network call.
C4_InvalidSubmitNoOp ==
  [][(ev'.op \in {"rejected", "submit"} /\ (url = "" \/ ~isValidUrl(url))) =>
       UNCHANGED <<url, response, status, history, currentRequestId, calls, issued>>]_vars

C4_Witness ==
  /\ ev.op = "rejected"
  /\ url = "not a url"
  /\ Len(history) > 0

\* C5: a successful completion adds a Success record whose text is the
\* 2-space-indented serialization of the parsed body, and leaves status =
\* success, response = that text and currentRequestId = the record's id.
C5_SuccessEffects ==
  [][ev'.op = "success" =>
       \E c \in 1..Len(calls) :
         /\ Returned(c)
         /\ calls[c].pc = "json"
         /\ JSONParse(calls[c].res.body).ok
         /\ Len(history') > 0
         /\ Last(history').status = "success"
         /\ Last(history').response =
              JSONStringify(JSONParse(calls[c].res.body).val, 2)
         /\ status' = "success"
         /\ response' = Last(history').response
         /\ currentRequestId' = Last(history').id]_vars

\* the body [1,2] has been shown as "[\n  1,\n  2\n]"
C5_Witness ==
  /\ ev.op = "success"
  /\ status = "success"
  /\ response = <<"[", "\n", " ", " ", "1", ",", "\n", " ", " ", "2", "\n", "]">>
  /\ Last(history).response = response

\* the text C6 expects for a thrown value
C6_Expected(e) ==
  IF e.message # <<>> THEN <<"Error: ">> \o e.message
  ELSE <<"Error: ", "Unknown error">>

\* C6: a failed completion adds an Error record whose text is "Error: " and
\* the failure's message, or "Error: Unknown error" when the thrown value has
\* no message, and leaves status = error, response = that text and
\* currentRequestId = the record's id.
C6_FailureEffects ==
  [][ev'.op = "failure" =>
       /\ Len(history') > 0
       /\ Last(history').status = "error"
       /\ Last(history').response = C6_Expected(ev'.error)
       /\ status' = "error"
       /\ response' = Last(history').response
       /\ currentRequestId' = Last(history').id]_vars

C6_Witness ==
  /\ ev.op = "failure"
  /\ ~ev.error.isError
  /\ response = <<"Error: ", "Unknown error">>
  /\ Last(history).status = "error"

\* C7: the completion of a call whose response has a non-OK status leaves
\* status = error and adds an Error record.
C7_NonOkIsFailure ==
  [][(Completion /\ \E c \in 1..Len(calls) :
        Returned(c) /\ calls[c].pc = "json" /\ ~calls[c].res.ok) =>
       /\ status' = "error"
       /\ Last(history').status = "error"]_vars

\* C8: clearHistory leaves history empty, no record selected, status idle and
\* the "cleared" message, and does not change url, also while a request is
\* outstanding.
C8_ClearEffects ==
  [][ev'.op = "clear" =>
       /\ history' = <<>>
       /\ currentRequestId' = Null
       /\ status' = "idle"
       /\ response' = <<"History cleared. Enter an API endpoint and click Fetch.">>
       /\ url' = url]_vars

C8_Witness ==
  /\ ev.op = "clear"
  /\ Len(calls) > 0
  /\ status = "idle"
  /\ history = <<>>

\* C9: selecting a record of history projects it on url, response, status and
\* currentRequestId, leaves history as it is and issues no network call.
C9_SelectEffects ==
  [][ev'.op = "select" =>
       /\ ev'.item \in 1..Len(history)
       /\ url' = history[ev'.item].url
       /\ response' = history[ev'.item].response
       /\ status' = history[ev'.item].status
       /\ currentRequestId' = history[ev'.item].id
       /\ history' = history
       /\ calls' = calls
       /\ issued' = issued]_vars

\* an Error record selected while the session showed something else
C9_Witness ==
  /\ ev.op = "select"
  /\ Len(history) >= 2
  /\ status = "error"
  /\ Last(history).status = "success"
  /\ currentRequestId = history[ev.item].id

\* C10: the ids of the records of history are strictly increasing in list
\* order (hence pairwise distinct).
C10_IdsIncreasing ==
  \A i, j \in 1..Len(history) : i < j => history[i].id < history[j].id

\* C11: an accepted submit leaves, in its own step, status = loading and the
\* "fetching" message with its call outstanding and not yet settled; history
\* and currentRequestId are as before.
C11_SubmitShowsLoading ==
  [][ev'.op = "submit" =>
       /\ status' = "loading"
       /\ response' = <<"Fetching data...">>
       /\ Len(calls') = Len(calls) + 1
       /\ Last(calls').pc = "fetch"
       /\ history' = history
       /\ currentRequestId' = currentRequestId]_vars

\* a submit from a session that shows a selected record
C11_Witness ==
  /\ ev.op = "submit"
  /\ status = "loading"
  /\ Len(history) > 0
  /\ currentRequestId # Null
  /\ Last(calls).pc = "fetch"

\* C12: every accepted submission is completed at most once, by the success
\* effects or by the failure effects and never both, and its completion builds
\* one record: the completions and the outstanding activations add up to the
\* calls issued, and a completion is the return of one activation with one
\* outcome, shown by status and by the record it built.
C12_CompletedOnce ==
  /\ [](completed + Len(calls) = issued)
  /\ [][/\ Completion =>
            /\ completed' = completed + 1
            /\ \E c \in 1..Len(calls) : Returned(c)
            /\ Len(history') >= 1
            /\ status' = (IF ev'.op = "success" THEN "success" ELSE "error")
            /\ Last(history').status = status'
        /\ ~Completion =>
            /\ completed' = completed
            /\ Len(calls') >= Len(calls)
            /\ Len(history') <= Len(history)]_vars

\* two submissions completed, one by each outcome, a third outstanding
C12_Witness ==
  /\ completed = 2
  /\ Len(calls) = 1
  /\ Len(history) = 2
  /\ history[1].status = "error"
  /\ history[2].status = "success"
  /\ ev.op = "success"

\* C13: when no call stays pending for ever, the n-th accepted submit is
\* followed by the n-th completion, whatever the calls end with.
C13_EveryCallCompletes ==
  \A n \in 1..MaxCalls : (issued = n) ~> (completed >= n)

\* every call issued has been completed, the last one by the catch block
C13_Witness ==
  /\ issued >= 2
  /\ completed = issued
  /\ ev.op = "failure"
  /\ Last(history).status = "error"

\* C14: formatting is idempotent: formatting what formatResponse returned,
\* under the same status, returns it unchanged, for every text and status.
C14_FormatIdempotent == Len(out) = 2 => out[2] = out[1]

\* [1] became "[\n  1\n]", and formatting that again left it so
C14_Witness ==
  /\ Len(out) = 2
  /\ arg.status = "success"
  /\ arg.response = <<"[", "1", "]">>
  /\ out[1] = <<"[", "\n", " ", " ", "1", "\n", "]">>
  /\ out[2] = out[1]

\* what C15 says formatResponse returns
C15_Expected ==
  IF arg.status \in {"idle", "loading"} THEN arg.response
  ELSE IF ~JSONParse(arg.response).ok THEN arg.response
  ELSE JSONStringify(JSONParse(arg.response).val, 2)

\* C15: formatResponse returns the text unchanged under idle or loading and
\* when the text is no JSON; a JSON text under success or error is replaced by
\* its 2-space-indented serialization.
C15_FormatCases == Len(out) >= 1 => out[1] = C15_Expected

\* a JSON text that is left alone because the status is loading
C15_Witness ==
  /\ Len(out) = 1
  /\ arg.status = "loading"
  /\ JSONParse(arg.response).ok
  /\ arg.response = <<"[", "0", "]">>
  /\ out[1] = arg.response

\* C16: the url of a record is the url the session had when its submission
\* was accepted: the activation takes it at the submit, keeps it while it is
\* suspended, whatever becomes of url, and puts it in the record.
C16_RecordKeepsSubmittedUrl ==
  [][/\ ev'.op = "submit" => Last(calls').url = url
     /\ Completion =>
          \E c \in 1..Len(calls) : Returned(c) /\ Last(history').url = calls[c].url
     /\ ~Completion =>
          \A c \in 1..Len(calls) : calls'[c].url = calls[c].url]_vars

\* the url was edited between the submit and its completion
C16_Witness ==
  /\ ev.op \in {"success", "failure"}
  /\ url = "not a url"
  /\ Last(history).url = "https://example.test/ok"

\* C17: truncateUrl returns url unchanged when it has at most maxLength
\* characters, otherwise its first maxLength - 3 characters followed by "...",
\* and what it returns never has more than maxLength characters.
C17_TruncateWithinBudget ==
  Len(out) = 1 =>
    /\ Len(arg.url) <= arg.maxLength => out[1] = arg.url
    /\ Len(arg.url) > arg.maxLength =>
         out[1] = SubSeq(arg.url, 1, arg.maxLength - 3) \o <<".", ".", ".">>
    /\ Len(out[1]) <= arg.maxLength

\* C18: currentRequestId is null or the id of a record of history, in every
\* reachable state.
C18_SelectionInHistory ==
  \/ currentRequestId = Null
  \/ \E i \in 1..Len(history) : history[i].id = currentRequestId

\* a completion that arrived after a clear, with another call still out
C18_Witness ==
  /\ ev.op \in {"success", "failure"}
  /\ Len(history) = 2
  /\ Len(calls) = 1
  /\ calls[1].history = <<>>
  /\ currentRequestId = Last(history).id

\* C19: the completion of a call that finds history emptied (by a clear run
\* since its submit) leaves in history its own new record and nothing else:
\* no cleared record is back.
C19_ClearedStaysCleared ==
  [][(Completion /\ history = <<>>) => Len(history') = 1]_vars

\* C20: status is loading exactly when a call is outstanding.
C20_LoadingIffOutstanding == (status = "loading") <=> (Len(calls) > 0)


\* the records of history that carry the selected id
Selected == { i \in 1..Len(history) : history[i].id = currentRequestId }

\* C21 as read with "the record" meaning some record with the selected id
C21_SomeSelectedRecordShown ==
  status \in {"success", "error"} =>
    /\ currentRequestId # Null
    /\ \E i \in Selected :
         /\ history[i].response = response
         /\ history[i].status = status

\* no two records of history carry the same id
DistinctIds ==
  \A i, j \in 1..Len(history) : history[i].id = history[j].id => i = j

\* C21 as it stands while the ids of history are distinct
C21_ShownWhileIdsDistinct ==
  (DistinctIds /\ status \in {"success", "error"}) =>
    /\ currentRequestId # Null
    /\ \E i \in Selected :
         /\ history[i].response = response
         /\ history[i].status = status

\* C21: whenever status is success or error, a request is selected and the
\* history record with the selected id has the displayed response as its
\* response and the current status as its status.
C21_SelectedRecordShown ==
  status \in {"success", "error"} =>
    /\ currentRequestId # Null
    /\ Selected # {}
    /\ \A i \in Selected :
         /\ history[i].response = response
         /\ history[i].status = status

\* C22: whenever status is idle, history is empty and nothing is selected,
\* and whenever status is success or error, history is not empty; status
\* becomes idle only by a clear, and every completion and every selection
\* leaves a status other than idle.
C22_IdleIffEmpty ==
  /\ [](status = "idle" => (history = <<>> /\ currentRequestId = Null))
  /\ [](status \in {"success", "error"} => history # <<>>)
  /\ [][/\ (status # "idle" /\ status' = "idle") => ev'.op = "clear"
        /\ ev'.op \in {"success", "failure", "select"} => status' # "idle"]_vars

\* a clear run while a call was outstanding: idle with a call still to return
C22_Witness ==
  /\ ev.op = "clear"
  /\ status = "idle"
  /\ Len(calls) = 1
  /\ calls[1].history # <<>>

====
